---- MODULE Spec2Model ----
(***************************************************************************)
(* Model of the tweet ingestion pipeline: App::run (app.rs) drives         *)
(* prepare_database, parse_files, one insert_new_tweets call per file      *)
(* (db.rs: chunking, semaphore-limited writer tasks, retry with            *)
(* exponential backoff) and the relationship derivation queries.           *)
(* A second part models the Cypher upsert of run_insert_with_txn on a      *)
(* small graph, a third the decoding of parse_files and json::parse_file   *)
(* line by line.                                                           *)
(* Time is in milliseconds.  One action is one poll of a task: the code    *)
(* between two await points.                                               *)
(***************************************************************************)
EXTENDS Integers, Sequences, FiniteSets, TLC

VARIABLES
    pc,        \* position of App::run
    env,       \* what the store and the clock may do in this run
    files,     \* per input file, the number of tweets parse_file returns
    results,   \* Vec<Vec<Tweet>> returned by parse_files (as lengths)
    file_idx,  \* number of files whose insert_new_tweets call has started
    permits,   \* free permits of the semaphore of the running call
    tasks,     \* writer tasks (handles) of the running insert_new_tweets call
    finished,  \* per returned insert_new_tweets call, the states its tasks were joined in
    graph,     \* the store's graph: tweet nodes, user nodes, POSTED_BY edges
    applied,   \* the parameter batches committed so far, in commit order
    input,     \* per input file, its lines (runs that decode line by line)
    workers,   \* per input file, the rayon task of parse_files that decodes it
    counters,  \* the three Mutex-guarded counters of parse_files
    app        \* App's fields tweet_count, deletet_tweet_count, retweet_count

vars ==
    <<pc, env, files, results, file_idx, permits, tasks, finished, graph, applied,
      input, workers, counters, app>>

pipelineVars == <<pc, env, files, results, file_idx, permits, tasks, finished>>

graphVars == <<graph, applied>>

decodeVars == <<input, workers, counters, app>>

-----------------------------------------------------------------------------
\* Program constants

batch_size == 500

max_concurrent_batches == 8

initial_interval == 100

max_interval == 10000

multiplier == 2

max_elapsed_time == 60000

\* ExponentialBackoff::default() leaves randomization_factor at 0.5 (in percent)
randomization_percent == 50

-----------------------------------------------------------------------------
\* Bounds of the model

MaxFiles == 2

MaxChunks == 2

MaxAttempts == 40

MaxRows == 3

MaxLines == 4

-----------------------------------------------------------------------------
\* Helpers

Min(a, b) == IF a <= b THEN a ELSE b

\* chunks_exact: the records after the last full chunk are left out
NumChunksExact(n) == n \div batch_size

\* tweets.chunks(batch_size).enumerate(): tweets are the positions 1..n
NumChunks(n) == (n + batch_size - 1) \div batch_size

\* Chunks that are all paired with index 0
ChunksUnnumbered(n) ==
    [i \in 1..NumChunks(n) |->
        [batch_idx |-> 0,
         lo |-> (i - 1) * batch_size + 1,
         hi |-> Min(i * batch_size, n)]]

Chunks(n) ==
    [i \in 1..NumChunks(n) |->
        [batch_idx |-> i - 1,
         lo |-> (i - 1) * batch_size + 1,
         hi |-> Min(i * batch_size, n)]]

\* A neo4rs::Error rendered with {:?}, as the sequence of its words
Contains(error_string, pattern) ==
    \E i \in 1..Len(error_string) : error_string[i] = pattern

is_deadlock_error(error) ==
    \/ Contains(error, "DeadlockDetected")
    \/ Contains(error, "TransactionTerminatedException")
    \/ Contains(error, "concurrent access")
    \/ Contains(error, "deadlock")

ErrDeadlockDetected == <<"Neo4j", "Neo.TransientError.Transaction.", "DeadlockDetected">>

ErrTerminated == <<"Neo4j", "TransactionTerminatedException">>

ErrConcurrentAccess == <<"UnexpectedMessage", "concurrent access">>

ErrForseti == <<"Neo4j", "ForsetiClient", "deadlock">>

ErrConstraint == <<"Neo4j", "Neo.ClientError.Schema.", "ConstraintValidationFailed">>

ErrConnection == <<"ConnectionError">>

AllErrors ==
    {ErrDeadlockDetected, ErrTerminated, ErrConcurrentAccess, ErrForseti,
     ErrConstraint, ErrConnection}

-----------------------------------------------------------------------------
\* ExponentialBackoff as configured in insert_new_tweets

\* get_random_value_from_interval: random is r/2 for r in 0..2
RandomizedInterval(current_interval, r) ==
    LET delta == (randomization_percent * current_interval) \div 100
        min_interval == current_interval - delta
        max_int == current_interval + delta
    IN  min_interval + (r * (max_int - min_interval)) \div 2

\* An interval that keeps doubling past max_interval
IncrementUncapped(current_interval) == current_interval * multiplier

\* increment_current_interval
IncrementCurrentInterval(current_interval) ==
    IF current_interval >= max_interval \div multiplier
    THEN max_interval
    ELSE current_interval * multiplier

\* A backoff that never looks at max_elapsed_time
NextBackoffNoBudget(elapsed, current_interval, r) ==
    [some |-> TRUE,
     delay |-> RandomizedInterval(current_interval, r),
     current_interval |-> IncrementCurrentInterval(current_interval)]

\* next_backoff: None once the budget is used up, else the jittered delay
NextBackoff(elapsed, current_interval, r) ==
    IF elapsed > max_elapsed_time
    THEN [some |-> FALSE, delay |-> 0, current_interval |-> current_interval]
    ELSE LET d == RandomizedInterval(current_interval, r)
         IN  [some |-> elapsed + d <= max_elapsed_time,
              delay |-> d,
              current_interval |-> IncrementCurrentInterval(current_interval)]

-----------------------------------------------------------------------------
\* The store: what the query of run_insert_with_txn does to the graph.
\* text stands for the six properties SET on a tweet node, userName for the
\* ten properties set ON CREATE on a user node.

TweetIds == {"t1", "t2"}

UserIds == {"u1", "u2"}

Texts == {"a", "b"}

Names == {"x", "y"}

\* One map of prepare_batch_parameters
Rows == [id : TweetIds, text : Texts, userId : UserIds, userName : Names]

EmptyGraph ==
    [tweets |-> {}, users |-> {}, edges |-> [e \in TweetIds \X UserIds |-> 0]]

\* CREATE (t)-[:POSTED_BY]->(u)
CreateEdge(edges, row) ==
    [edges EXCEPT ![<<row.id, row.userId>>] = @ + 1]

\* An edge that is only created together with its tweet node
ApplyRowEdgeWithNode(g, row) ==
    LET known == \E t \in g.tweets : t.id = row.id
        merged == IF known THEN g.tweets
                  ELSE g.tweets \cup {[id |-> row.id, text |-> "null"]}
    IN  [tweets |-> {IF t.id = row.id THEN [t EXCEPT !.text = row.text] ELSE t :
                        t \in merged},
         users |-> IF \E u \in g.users : u.id = row.userId THEN g.users
                   ELSE g.users \cup {[id |-> row.userId, name |-> row.userName]},
         edges |-> IF known THEN g.edges ELSE CreateEdge(g.edges, row)]

\* The query for one element of $batch: MERGE the tweet and SET its
\* properties, MERGE the user with ON CREATE SET, CREATE the edge
ApplyRow(g, row) ==
    LET merged == IF \E t \in g.tweets : t.id = row.id THEN g.tweets
                  ELSE g.tweets \cup {[id |-> row.id, text |-> "null"]}
    IN  [tweets |-> {IF t.id = row.id THEN [t EXCEPT !.text = row.text] ELSE t :
                        t \in merged},
         users |-> IF \E u \in g.users : u.id = row.userId THEN g.users
                   ELSE g.users \cup {[id |-> row.userId, name |-> row.userName]},
         edges |-> CreateEdge(g.edges, row)]

\* UNWIND $batch AS tweet ..., committed as one transaction
RECURSIVE run_insert_with_txn(_, _)
run_insert_with_txn(g, batch) ==
    IF batch = <<>> THEN g
    ELSE run_insert_with_txn(ApplyRow(g, Head(batch)), Tail(batch))

\* The parameter batches of n rows
ParamBatches(n) == [1..n -> Rows]

RECURSIVE TotalRows(_)
TotalRows(bs) == IF bs = <<>> THEN 0 ELSE Len(Head(bs)) + TotalRows(Tail(bs))

-----------------------------------------------------------------------------
\* Decoding: json::parse_file and App::parse_files

\* One line of an input file: whether it is UTF-8, whether it contains
\* "delete": , whether it contains "retweeted_status": , whether
\* serde_json::from_str::<Tweet> accepts it, and the value its JSON gives to
\* the member "is_retweet" (false when the member is absent: serde(default))
Lines ==
    {l \in [utf8 : BOOLEAN, delete : BOOLEAN, retweeted_status : BOOLEAN,
            tweet : BOOLEAN, is_retweet : BOOLEAN] :
        /\ l.utf8 \/ ~(l.delete \/ l.retweeted_status \/ l.tweet)
        /\ l.is_retweet => l.tweet}

\* A line without the member "is_retweet"
Line(delete, retweeted_status, tweet) ==
    [utf8 |-> TRUE, delete |-> delete, retweeted_status |-> retweeted_status,
     tweet |-> tweet, is_retweet |-> FALSE]

\* The Tweet serde_json builds from a line it accepts
Decoded(line) == [is_retweet |-> line.is_retweet]

\* if content.contains("\"retweeted_status\":") { tweet.is_retweet = true }
Marked(line, tweet) ==
    IF line.retweeted_status THEN [tweet EXCEPT !.is_retweet = TRUE] ELSE tweet

Post == Line(FALSE, FALSE, TRUE)

Retweet == Line(FALSE, TRUE, TRUE)

Deletion == Line(TRUE, FALSE, FALSE)

Malformed == Line(FALSE, FALSE, FALSE)

\* A valid post whose JSON holds "is_retweet": true and no re-share marker
FlaggedPost == [Post EXCEPT !.is_retweet = TRUE]

\* A file that File::open cannot open
Unreadable == [readable |-> FALSE, lines |-> <<>>]

\* A file that opens, with its lines
Readable(lines) == [readable |-> TRUE, lines |-> lines]

\* The files of at most n lines
Contents(n) == {Readable(lines) : lines \in UNION {[1..k -> Lines] : k \in 0..n}}

\* The rayon task of one file before it runs; decoded counts the calls of
\* serde_json::from_str
SpawnWorker ==
    [st |-> "queued", pos |-> 0, tweets |-> <<>>, deleted |-> 0,
     tweet_num |-> 0, retweet_num |-> 0, decoded |-> 0]

\* A loop body that decodes the line before it looks for the deletion marker
read_line_decode_first(w, line) ==
    LET seen == [w EXCEPT !.pos = @ + 1, !.tweet_num = @ + 1]
    IN  IF ~line.utf8 THEN [seen EXCEPT !.st = "panicked"]
        ELSE IF line.tweet
        THEN [seen EXCEPT
                 !.decoded = @ + 1,
                 !.retweet_num = @ + (IF line.retweeted_status THEN 1 ELSE 0),
                 !.tweets = Append(@, Marked(line, Decoded(line)))]
        ELSE IF line.delete
        THEN [seen EXCEPT !.decoded = @ + 1, !.deleted = @ + 1]
        ELSE [seen EXCEPT !.decoded = @ + 1]

\* A loop body that forgets to count the lines serde_json rejects
read_line_skip_rejected(w, line) ==
    IF ~line.utf8 THEN [w EXCEPT !.pos = @ + 1, !.tweet_num = @ + 1,
                                  !.st = "panicked"]
    ELSE IF line.delete
    THEN [w EXCEPT !.pos = @ + 1, !.tweet_num = @ + 1, !.deleted = @ + 1]
    ELSE IF line.tweet
    THEN [w EXCEPT
             !.pos = @ + 1, !.tweet_num = @ + 1, !.decoded = @ + 1,
             !.retweet_num = @ + (IF line.retweeted_status THEN 1 ELSE 0),
             !.tweets = Append(@, Marked(line, Decoded(line)))]
    ELSE [w EXCEPT !.pos = @ + 1, !.decoded = @ + 1]

\* The body of the read_lines! loop of parse_file for one line
read_line(w, line) ==
    LET seen == [w EXCEPT !.pos = @ + 1, !.tweet_num = @ + 1]
    IN  IF ~line.utf8 THEN [seen EXCEPT !.st = "panicked"]
        ELSE IF line.delete THEN [seen EXCEPT !.deleted = @ + 1]
        ELSE IF line.tweet
        THEN [seen EXCEPT
                 !.decoded = @ + 1,
                 !.retweet_num = @ + (IF line.retweeted_status THEN 1 ELSE 0),
                 !.tweets = Append(@, Marked(line, Decoded(line)))]
        ELSE [seen EXCEPT !.decoded = @ + 1]

\* parse_file returns once the reader is at the end of the file
AtEnd(w, file) ==
    IF w.st = "reading" /\ w.pos = Len(file.lines)
    THEN [w EXCEPT !.st = "returned"]
    ELSE w

\* File::open(..).unwrap()
Opened(w, file) ==
    IF ~file.readable THEN [w EXCEPT !.st = "panicked"]
    ELSE AtEnd([w EXCEPT !.st = "reading"], file)

RECURSIVE read_lines(_, _)
read_lines(w, file) ==
    IF w.st # "reading" THEN w
    ELSE read_lines(AtEnd(read_line(w, file.lines[w.pos + 1]), file), file)

\* parse_file from its call to its return or panic
parse_file(file) == read_lines(Opened(SpawnWorker, file), file)

NoCounts ==
    [deleted_tweets |-> 0, number_of_tweets |-> 0, number_of_retweets |-> 0]

\* self.tweet_count = *number_of_tweets.lock().unwrap(), and so on
Stored(c) ==
    [tweet_count |-> c.number_of_tweets,
     deletet_tweet_count |-> c.deleted_tweets,
     retweet_count |-> c.number_of_retweets]

\* A counter that is assigned instead of added to
Overwritten(counter, n) == n

\* *deleted_count += deleted, and so on, with the counter's lock held
Merged(counter, n) == counter + n

\* A collect() that does not wait for the tasks of the parallel iterator
AllDecodedAtOnce == TRUE

\* collect() returns when every task of the parallel iterator has finished
AllDecoded == \A f \in 1..Len(workers) : workers[f].st = "done"

StartParse ==
    /\ pc = "parse_files"
    /\ workers' = [f \in 1..Len(input) |-> SpawnWorker]
    /\ counters' = NoCounts
    /\ pc' = "par_iter"
    /\ UNCHANGED <<env, files, results, file_idx, permits, tasks, finished,
                   graphVars, input, app>>

OpenFile(f) ==
    /\ pc = "par_iter"
    /\ workers[f].st = "queued"
    /\ workers' = [workers EXCEPT ![f] = Opened(@, input[f])]
    /\ UNCHANGED <<pc, env, files, results, file_idx, permits, tasks, finished,
                   graphVars, input, counters, app>>

ReadLine(f) ==
    /\ pc = "par_iter"
    /\ workers[f].st = "reading"
    /\ workers' = [workers EXCEPT
                      ![f] = AtEnd(read_line(@, input[f].lines[@.pos + 1]),
                                   input[f])]
    /\ UNCHANGED <<pc, env, files, results, file_idx, permits, tasks, finished,
                   graphVars, input, counters, app>>

AddDeleted(f) ==
    /\ pc = "par_iter"
    /\ workers[f].st = "returned"
    /\ counters' = [counters EXCEPT
                       !.deleted_tweets = Merged(@, workers[f].deleted)]
    /\ workers' = [workers EXCEPT ![f].st = "deleted_added"]
    /\ UNCHANGED <<pc, env, files, results, file_idx, permits, tasks, finished,
                   graphVars, input, app>>

AddTweetNum(f) ==
    /\ pc = "par_iter"
    /\ workers[f].st = "deleted_added"
    /\ counters' = [counters EXCEPT
                       !.number_of_tweets = Merged(@, workers[f].tweet_num)]
    /\ workers' = [workers EXCEPT ![f].st = "tweets_added"]
    /\ UNCHANGED <<pc, env, files, results, file_idx, permits, tasks, finished,
                   graphVars, input, app>>

AddRetweetNum(f) ==
    /\ pc = "par_iter"
    /\ workers[f].st = "tweets_added"
    /\ counters' = [counters EXCEPT
                       !.number_of_retweets = Merged(@, workers[f].retweet_num)]
    /\ workers' = [workers EXCEPT ![f].st = "done"]
    /\ UNCHANGED <<pc, env, files, results, file_idx, permits, tasks, finished,
                   graphVars, input, app>>

\* collect() and the rest of parse_files
Collect ==
    /\ pc = "par_iter"
    /\ AllDecoded
    /\ results' = [f \in 1..Len(workers) |-> Len(workers[f].tweets)]
    /\ app' = Stored(counters)
    /\ pc' = "for_results"
    /\ UNCHANGED <<env, files, file_idx, permits, tasks, finished, graphVars,
                   input, workers, counters>>

\* rayon resumes a task's panic in the thread that called collect(), once
\* the other tasks have finished: parse_files and App::run unwind
PropagatePanic ==
    /\ pc = "par_iter"
    /\ \E f \in 1..Len(workers) : workers[f].st = "panicked"
    /\ \A f \in 1..Len(workers) : workers[f].st \in {"done", "panicked"}
    /\ pc' = "panicked"
    /\ UNCHANGED <<env, files, results, file_idx, permits, tasks, finished,
                   graphVars, decodeVars>>

RECURSIVE Sum(_)
Sum(ns) == IF ns = <<>> THEN 0 ELSE Head(ns) + Sum(Tail(ns))

-----------------------------------------------------------------------------
\* Writer tasks of insert_new_tweets

Terminal == {"Committed", "PermanentlyFailed", "RetriesExhausted"}

Failed == {"PermanentlyFailed", "RetriesExhausted"}

NoReport == [kind |-> "none", batch_idx |-> 0, err |-> <<>>]

\* println!("Batch {} completed successfully", batch_idx)
CompletedReport(batch_idx) ==
    [kind |-> "completed successfully", batch_idx |-> batch_idx, err |-> <<>>]

\* A failure line that leaves out the error
FailedReportNoCause(batch_idx, e) ==
    [kind |-> "failed after all retries", batch_idx |-> batch_idx, err |-> <<>>]

\* eprintln!("Failed to process batch {} after all retries: {:?}", batch_idx, e)
FailedReport(batch_idx, e) ==
    [kind |-> "failed after all retries", batch_idx |-> batch_idx, err |-> e]

\* tokio::spawn of one chunk: the task waits for a permit
SpawnTask(chunk) ==
    [batch_idx |-> chunk.batch_idx, lo |-> chunk.lo, hi |-> chunk.hi,
     st |-> "Pending", attempts |-> 0, deadlock_msgs |-> 0,
     elapsed |-> 0, current_interval |-> 0, delay |-> 0, report |-> NoReport]

\* The task leaves the async block: its backoff state and permit are dropped
Finish(t, st, report) ==
    [t EXCEPT !.st = st, !.report = report,
              !.elapsed = 0, !.current_interval = 0, !.delay = 0]

\* sem_clone.acquire() returned; retry() resets the backoff and starts attempt 1
Acquired(t) ==
    [t EXCEPT !.st = "Attempting", !.attempts = 1,
              !.elapsed = 0, !.current_interval = initial_interval]

\* A transient failure that prints nothing
DeadlockNotLogged(t) == t

\* println!("Deadlock detected in batch {}, will retry", batch_idx)
DeadlockLogged(t) == [t EXCEPT !.deadlock_msgs = @ + 1]

\* A closure that wraps every error in BackoffError::transient
ClassifyAllTransient(result) ==
    IF result = <<>> THEN "ok" ELSE "transient"

\* The closure's match on run_insert_with_txn's result
Classify(result) ==
    IF result = <<>> THEN "ok"
    ELSE IF is_deadlock_error(result) THEN "transient"
    ELSE "permanent"

\* One attempt returned after dur ms with result (<<>> is Ok): what retry() does
Attempted(t, result, dur, r) ==
    LET now == t.elapsed + dur
        nb == NextBackoff(now, t.current_interval, r)
    IN  CASE Classify(result) = "ok" ->
               Finish(t, "Committed", CompletedReport(t.batch_idx))
          [] Classify(result) = "permanent" ->
               Finish(t, "PermanentlyFailed", FailedReport(t.batch_idx, result))
          [] Classify(result) = "transient" /\ nb.some ->
               [DeadlockLogged(t) EXCEPT
                         !.st = "Backoff", !.elapsed = now, !.delay = nb.delay,
                         !.current_interval = nb.current_interval]
          [] OTHER ->
               Finish(DeadlockLogged(t),
                      "RetriesExhausted", FailedReport(t.batch_idx, result))

\* A retry that queues for a permit again
WokenRequeued(t) == [t EXCEPT !.st = "Pending", !.elapsed = @ + t.delay]

\* The backoff sleep is over: the next attempt starts
Woken(t) ==
    [t EXCEPT !.st = "Attempting", !.attempts = @ + 1, !.elapsed = @ + t.delay]

InFlight == {b \in 1..Len(tasks) : tasks[b].st \in {"Attempting", "Backoff"}}

\* A permit that only a committed batch gives back
ReleasedOnCommit(old, new) ==
    IF old.st \notin Terminal /\ new.st = "Committed" THEN 1 ELSE 0

\* A permit that is held for one attempt and given back before the sleep
ReleasedWhileAsleep(old, new) ==
    IF old.st \notin Terminal /\ new.st \in Terminal \cup {"Backoff"} THEN 1 ELSE 0

\* A permit that is forgotten instead of dropped
ReleasedByNoOne(old, new) == 0

\* Permits returned by a step that takes task b from old to new
Released(old, new) ==
    IF old.st \notin Terminal /\ new.st \in Terminal THEN 1 ELSE 0

\* A task that adds the tweets of its batch to App's count when it commits
AppCountsCommitted(a, old, new) ==
    IF new.st = "Committed"
    THEN [a EXCEPT !.tweet_count = @ + (new.hi - new.lo + 1)]
    ELSE a

\* The task owns its chunk, the credentials and a semaphore clone only:
\* App's fields are out of its reach
AppAfterAttempt(a, old, new) == a

\* acquire() that does not wait for a free permit
CanAcquireUnlimited(b) == tasks[b].st = "Pending"

CanAcquire(b) == tasks[b].st = "Pending" /\ permits > 0

Acquire(b) ==
    /\ pc = "join_all"
    /\ CanAcquire(b)
    /\ permits' = permits - 1
    /\ tasks' = [tasks EXCEPT ![b] = Acquired(tasks[b])]
    /\ UNCHANGED <<pc, env, files, results, file_idx, finished, graphVars,
                   decodeVars>>

AttemptDone(b) ==
    /\ pc = "join_all"
    /\ tasks[b].st = "Attempting"
    /\ \E result \in {<<>>} \cup env.errors, dur \in env.durations, r \in env.randoms :
          LET new == Attempted(tasks[b], result, dur, r)
          IN  /\ tasks' = [tasks EXCEPT ![b] = new]
              /\ permits' = permits + Released(tasks[b], new)
              /\ app' = AppAfterAttempt(app, tasks[b], new)
    /\ UNCHANGED <<pc, env, files, results, file_idx, finished, graphVars,
                   input, workers, counters>>

WakeUp(b) ==
    /\ pc = "join_all"
    /\ tasks[b].st = "Backoff"
    /\ tasks[b].attempts < MaxAttempts
    /\ tasks' = [tasks EXCEPT ![b] = Woken(tasks[b])]
    /\ UNCHANGED <<pc, env, files, results, file_idx, permits, finished, graphVars,
                   decodeVars>>

-----------------------------------------------------------------------------
\* App::run

PrepareDatabase ==
    /\ pc = "prepare_database"
    /\ \E res \in {"ok", "err", "panic"} :
          pc' = CASE res = "ok" -> "parse_files"
                  [] res = "err" -> "exited"
                  [] OTHER -> "panicked"
    /\ UNCHANGED <<env, files, results, file_idx, permits, tasks, finished, graphVars,
                   decodeVars>>

\* parse_files as one step, for files in which every line is a plain post
ParseFiles ==
    /\ pc = "parse_files"
    /\ results' = files
    /\ counters' = [NoCounts EXCEPT !.number_of_tweets = Sum(files)]
    /\ app' = Stored(counters')
    /\ pc' = "for_results"
    /\ UNCHANGED <<env, files, file_idx, permits, tasks, finished, graphVars,
                   input, workers>>

\* insert_new_tweets up to join_all: connect, then spawn one task per chunk
InsertNewTweets ==
    /\ pc = "for_results"
    /\ file_idx < Len(results)
    /\ \E connected \in BOOLEAN :
          IF connected
          THEN /\ file_idx' = file_idx + 1
               /\ permits' = env.limit
               /\ tasks' = [i \in 1..NumChunks(results[file_idx + 1]) |->
                               SpawnTask(Chunks(results[file_idx + 1])[i])]
               /\ pc' = "join_all"
          ELSE /\ pc' = "panicked"
               /\ UNCHANGED <<file_idx, permits, tasks>>
    /\ UNCHANGED <<env, files, results, finished, graphVars,
                   decodeVars>>

States == {"Pending", "Attempting", "Backoff"} \cup Terminal

\* How many of the joined tasks were in each state
JoinedIn(ts) ==
    [s \in States |-> Cardinality({b \in 1..Len(ts) : ts[b].st = s})]

\* future::join_all(handles) is ready when every task has finished
JoinableAtOnce == TRUE

\* A join that waits until every task has a permit, not until it has ended
JoinableWhenStarted == \A b \in 1..Len(tasks) : tasks[b].st # "Pending"

Joinable == \A b \in 1..Len(tasks) : tasks[b].st \in Terminal

JoinAll ==
    /\ pc = "join_all"
    /\ Joinable
    /\ finished' = Append(finished, JoinedIn(tasks))
    /\ tasks' = <<>>
    /\ pc' = "for_results"
    /\ UNCHANGED <<env, files, results, file_idx, permits, graphVars,
                   decodeVars>>

Summary ==
    /\ pc = "for_results"
    /\ file_idx = Len(results)
    /\ pc' = "add_replies_to_relation"
    /\ UNCHANGED <<env, files, results, file_idx, permits, tasks, finished, graphVars,
                   decodeVars>>

\* Each derivation query: Ok moves on, a failure panics in unwrap()
AddRepliesToRelation ==
    /\ pc = "add_replies_to_relation"
    /\ \E ok \in BOOLEAN :
          pc' = IF ok THEN "add_user_mention_relation" ELSE "panicked"
    /\ UNCHANGED <<env, files, results, file_idx, permits, tasks, finished, graphVars,
                   decodeVars>>

AddUserMentionRelation ==
    /\ pc = "add_user_mention_relation"
    /\ \E ok \in BOOLEAN :
          pc' = IF ok THEN "add_airline_labels" ELSE "panicked"
    /\ UNCHANGED <<env, files, results, file_idx, permits, tasks, finished, graphVars,
                   decodeVars>>

AddAirlineLabels ==
    /\ pc = "add_airline_labels"
    /\ \E ok \in BOOLEAN :
          pc' = IF ok THEN "done" ELSE "panicked"
    /\ UNCHANGED <<env, files, results, file_idx, permits, tasks, finished, graphVars,
                   decodeVars>>

-----------------------------------------------------------------------------
\* Specifications of the pipeline

Limits == {1, 2, max_concurrent_batches}

FileSizes == {0} \cup {(k - 1) * batch_size + 1 : k \in 1..MaxChunks}

FileLists == UNION {[1..n -> FileSizes] : n \in 0..MaxFiles}

InitWith(envs, lists) ==
    /\ pc = "prepare_database"
    /\ env \in envs
    /\ files \in lists
    /\ results = <<>>
    /\ file_idx = 0
    /\ permits = 0
    /\ tasks = <<>>
    /\ finished = <<>>
    /\ graph = EmptyGraph
    /\ applied = <<>>
    /\ input = <<>>
    /\ workers = <<>>
    /\ counters = NoCounts
    /\ app = Stored(NoCounts)

\* Every transaction takes 20 s and the jitter is at its midpoint
CoarseEnvs ==
    [limit : Limits, durations : {{20000}}, randoms : {{1}},
     errors : {{ErrDeadlockDetected, ErrConstraint}}]

\* One batch, with varied transaction times, jitter and errors
FineEnvs ==
    [limit : {max_concurrent_batches}, durations : {{0, 1000, 61000}},
     randoms : {{0, 1, 2}}, errors : {AllErrors}]

Init == InitWith(CoarseEnvs, FileLists)

InitRetry == InitWith(FineEnvs, {<<1>>, <<batch_size>>})

Next ==
    \/ PrepareDatabase
    \/ ParseFiles
    \/ InsertNewTweets
    \/ \E b \in 1..Len(tasks) : Acquire(b)
    \/ \E b \in 1..Len(tasks) : AttemptDone(b)
    \/ \E b \in 1..Len(tasks) : WakeUp(b)
    \/ JoinAll
    \/ Summary
    \/ AddRepliesToRelation
    \/ AddUserMentionRelation
    \/ AddAirlineLabels

Spec == Init /\ [][Next]_vars

SpecRetry == InitRetry /\ [][Next]_vars

\* The runtime keeps polling ready tasks, timers fire and store calls return
FairSpec == Spec /\ WF_vars(Next)

FairSpecRetry == SpecRetry /\ WF_vars(Next)

\* Runs that decode line by line: an unreadable file and the two files of a
\* run with 3 valid posts (one a re-share), 1 deletion marker, 1 malformed line
RunFiles ==
    {Unreadable, Readable(<<Post, Retweet, Deletion>>),
     Readable(<<Post, Malformed>>)}

RunInputs == UNION {[1..n -> RunFiles] : n \in 0..MaxFiles}

RunEnvs ==
    [limit : {max_concurrent_batches}, durations : {{20000}}, randoms : {{1}},
     errors : {{ErrDeadlockDetected, ErrConstraint}}]

InitRun ==
    /\ pc = "prepare_database"
    /\ env \in RunEnvs
    /\ input \in RunInputs
    /\ files = [f \in 1..Len(input) |-> Len(parse_file(input[f]).tweets)]
    /\ results = <<>>
    /\ file_idx = 0
    /\ permits = 0
    /\ tasks = <<>>
    /\ finished = <<>>
    /\ graph = EmptyGraph
    /\ applied = <<>>
    /\ workers = <<>>
    /\ counters = NoCounts
    /\ app = Stored(NoCounts)

NextRun ==
    \/ PrepareDatabase
    \/ StartParse
    \/ \E f \in 1..Len(workers) : OpenFile(f)
    \/ \E f \in 1..Len(workers) : ReadLine(f)
    \/ \E f \in 1..Len(workers) : AddDeleted(f)
    \/ \E f \in 1..Len(workers) : AddTweetNum(f)
    \/ \E f \in 1..Len(workers) : AddRetweetNum(f)
    \/ Collect
    \/ PropagatePanic
    \/ InsertNewTweets
    \/ \E b \in 1..Len(tasks) : Acquire(b)
    \/ \E b \in 1..Len(tasks) : AttemptDone(b)
    \/ \E b \in 1..Len(tasks) : WakeUp(b)
    \/ JoinAll
    \/ Summary
    \/ AddRepliesToRelation
    \/ AddUserMentionRelation
    \/ AddAirlineLabels

\* The whole run, with parse_files decoding in parallel and line by line
SpecRun == InitRun /\ [][NextRun]_vars

\* One call of parse_file, on every file of at most MaxLines lines
InitParse ==
    /\ pc = "par_iter"
    /\ env \in RunEnvs
    /\ input \in {<<file>> : file \in {Unreadable} \cup Contents(MaxLines)}
    /\ files = <<0>>
    /\ results = <<>>
    /\ file_idx = 0
    /\ permits = 0
    /\ tasks = <<>>
    /\ finished = <<>>
    /\ graph = EmptyGraph
    /\ applied = <<>>
    /\ workers = <<SpawnWorker>>
    /\ counters = NoCounts
    /\ app = Stored(NoCounts)

NextParse ==
    \/ \E f \in 1..Len(workers) : OpenFile(f)
    \/ \E f \in 1..Len(workers) : ReadLine(f)

SpecParse == InitParse /\ [][NextParse]_vars

TypeOK ==
    /\ pc \in {"prepare_database", "parse_files", "par_iter", "for_results",
               "join_all",
               "add_replies_to_relation", "add_user_mention_relation",
               "add_airline_labels", "done", "exited", "panicked"}
    /\ file_idx \in 0..MaxFiles
    /\ permits \in 0..max_concurrent_batches
    /\ \A b \in 1..Len(tasks) :
          tasks[b].st \in States

-----------------------------------------------------------------------------
\* Properties of the pipeline

TaskIds == 1..Len(tasks)

\* C1: the number of batches between acquiring a permit and their terminal
\* outcome never exceeds the semaphore's size; with size 1 at most one batch
\* is in flight.
AtMostLimitInFlight == Cardinality(InFlight) <= env.limit

\* A batch waits for the only permit while another batch holds it
ContendedSemaphore ==
    /\ env.limit = 1
    /\ permits = 0
    /\ \E b1, b2 \in TaskIds :
          tasks[b1].st = "Backoff" /\ tasks[b2].st = "Pending"

DerivationStarted ==
    pc \in {"add_replies_to_relation", "add_user_mention_relation"}

\* C2: when relationship derivation has started, every batch of every file
\* has been submitted and was joined in a terminal state.
DerivationAfterAllTerminal ==
    DerivationStarted =>
        /\ tasks = <<>>
        /\ Len(finished) = Len(files)
        /\ \A f \in 1..Len(finished) :
              /\ \A s \in States \ Terminal : finished[f][s] = 0
              /\ finished[f]["Committed"] + finished[f]["PermanentlyFailed"]
                    + finished[f]["RetriesExhausted"] = NumChunks(files[f])

\* Derivation begins after a file of two batches, one of which failed
DerivationAfterFailedBatch ==
    /\ pc = "add_replies_to_relation"
    /\ \E f \in 1..Len(finished) :
          /\ NumChunks(files[f]) = 2
          /\ finished[f]["PermanentlyFailed"] + finished[f]["RetriesExhausted"] = 1

GoesToSleep(b) ==
    /\ b \in TaskIds
    /\ b \in 1..Len(tasks')
    /\ tasks[b].st = "Attempting"
    /\ tasks'[b].st = "Backoff"

\* C4: the retry loop ends.  No attempt runs and no sleep starts past the
\* 60 s budget, a batch that ran out of budget failed transiently on every
\* attempt, a terminal batch is never attempted again, and every running
\* insert_new_tweets call returns.
RetryLoopTerminates ==
    /\ [](\A b \in TaskIds :
            /\ tasks[b].st = "Attempting" =>
                  tasks[b].elapsed <= max_elapsed_time
            /\ tasks[b].st = "Backoff" =>
                  tasks[b].elapsed + tasks[b].delay <= max_elapsed_time
            /\ tasks[b].st = "RetriesExhausted" =>
                  /\ tasks[b].attempts = tasks[b].deadlock_msgs
                  /\ is_deadlock_error(tasks[b].report.err))
    /\ [][\A b \in TaskIds :
            (tasks[b].st \in Terminal /\ b \in 1..Len(tasks')) =>
                tasks'[b] = tasks[b]]_vars
    /\ [](pc = "join_all" => <>(pc = "for_results" /\ Len(finished) = file_idx))

\* A batch ran out of budget after many transient failures
ExhaustedAfterManyAttempts ==
    \E b \in TaskIds :
        /\ tasks[b].st = "RetriesExhausted"
        /\ tasks[b].attempts >= 12

\* C5 as stated: the delays slept by one batch never decrease, never exceed
\* max_interval, and the first one is initial_interval.
DelaysNonDecreasingCapped ==
    [][\A b \in 1..Len(tasks) :
          GoesToSleep(b) =>
              /\ tasks'[b].delay <= max_interval
              /\ tasks'[b].delay >= tasks[b].delay
              /\ (tasks[b].attempts = 1 => tasks'[b].delay = initial_interval)]_vars

\* C5 amended: the interval before jitter starts at initial_interval, doubles
\* and is capped at max_interval, so it never decreases; each delay slept lies
\* within 50% of that interval (at most 15 s).
JitteredDelaysFollowInterval ==
    [][\A b \in 1..Len(tasks) :
          GoesToSleep(b) =>
              LET cur == tasks[b].current_interval
                  d == tasks'[b].delay
              IN  /\ 2 * d >= cur
                  /\ 2 * d <= 3 * cur
                  /\ cur <= max_interval
                  /\ (tasks[b].attempts = 1 => cur = initial_interval)
                  /\ tasks'[b].current_interval = Min(cur * multiplier, max_interval)
                  /\ tasks'[b].current_interval >= cur]_vars

\* A batch sleeps 15 s, more than max_interval, once the interval is capped
SleepsLongerThanCap ==
    \E b \in TaskIds :
        /\ tasks[b].st = "Backoff"
        /\ tasks[b].delay > max_interval
        /\ tasks[b].current_interval = max_interval

AllJoinedTerminal ==
    \A f \in 1..Len(finished) :
        \A s \in States \ Terminal : finished[f][s] = 0

\* C7: once a batch has failed, the run still gets past the writes: every
\* call returns with all its batches terminal and the run reaches the
\* derivation step, unless connecting to the store for a later file panics.
FailedBatchDoesNotBlock ==
    []((\E b \in TaskIds : tasks[b].st \in Failed) =>
          <>(/\ pc \in {"add_replies_to_relation", "panicked"}
             /\ tasks = <<>>
             /\ AllJoinedTerminal))

\* With one permit, one batch of the first file ran out of budget and its
\* sibling committed, and a batch of the next file committed as well
CommittedAfterFailedSibling ==
    /\ env.limit = 1
    /\ pc = "add_replies_to_relation"
    /\ Len(finished) = 2
    /\ finished[1]["RetriesExhausted"] = 1
    /\ finished[1]["Committed"] = 1
    /\ finished[2]["Committed"] >= 1

\* C8: the failure line of a batch that ran out of budget and that of a
\* permanently failed batch never read the same: the error they print is
\* one is_deadlock_error accepts in the first case and rejects in the second.
ExhaustedDistinctFromPermanent ==
    \A b, c \in TaskIds :
        (tasks[b].st = "RetriesExhausted" /\ tasks[c].st = "PermanentlyFailed") =>
            /\ <<tasks[b].report.kind, tasks[b].report.err>>
                  # <<tasks[c].report.kind, tasks[c].report.err>>
            /\ is_deadlock_error(tasks[b].report.err)
            /\ ~is_deadlock_error(tasks[c].report.err)

\* One batch of a file ran out of budget, another failed permanently
ExhaustedBesidePermanent ==
    \E b, c \in TaskIds :
        tasks[b].st = "RetriesExhausted" /\ tasks[c].st = "PermanentlyFailed"

BatchLen(t) == t.hi - t.lo + 1

\* File sizes around the multiples of batch_size
BoundarySizes ==
    {k * batch_size + d : k \in 0..MaxChunks, d \in {-1, 0, 1}} \cap Nat

\* The chunks of n records cover 1..n in order, each of 1..batch_size
\* records and all but the last of batch_size
ChunksCover(n) ==
    LET cs == Chunks(n)
    IN  /\ n = 0 <=> cs = <<>>
        /\ cs # <<>> => cs[Len(cs)].hi = n
        /\ \A i \in 1..Len(cs) :
              /\ BatchLen(cs[i]) \in 1..batch_size
              /\ cs[i].lo = (IF i = 1 THEN 1 ELSE cs[i - 1].hi + 1)
              /\ i < Len(cs) => BatchLen(cs[i]) = batch_size

\* C15 as stated: the batches are non-empty, hold at most batch_size records
\* and follow each other without a gap, and only the last batch of the run
\* holds fewer than batch_size records.
ShortBatchOnlyLastOfRun ==
    pc = "join_all" =>
        \A b \in TaskIds :
            /\ BatchLen(tasks[b]) \in 1..batch_size
            /\ tasks[b].lo = (IF b = 1 THEN 1 ELSE tasks[b - 1].hi + 1)
            /\ BatchLen(tasks[b]) < batch_size =>
                  /\ b = Len(tasks)
                  /\ \A g \in (file_idx + 1)..Len(results) : results[g] = 0

\* C15 amended: the records of each file are planned on their own.  The
\* batches of a file are non-empty, hold at most batch_size records, are
\* numbered from 0 and cover the file's records in order without gap or
\* overlap; only the last batch of each file may hold fewer than batch_size
\* records; a file without records gives no batch.
BatchesPartitionEachFile ==
    pc = "join_all" =>
        LET n == results[file_idx]
        IN  /\ \A k \in BoundarySizes : ChunksCover(k)
            /\ n = 0 <=> tasks = <<>>
            /\ tasks # <<>> => tasks[Len(tasks)].hi = n
            /\ \A b \in TaskIds :
                  /\ BatchLen(tasks[b]) \in 1..batch_size
                  /\ tasks[b].batch_idx = b - 1
                  /\ tasks[b].lo = (IF b = 1 THEN 1 ELSE tasks[b - 1].hi + 1)
                  /\ b < Len(tasks) => BatchLen(tasks[b]) = batch_size

\* The last batch of the first file holds one record, and the second file
\* has records too
ShortBatchBeforeLaterFile ==
    /\ pc = "join_all"
    /\ file_idx = 1
    /\ Len(results) = 2
    /\ results[2] > 0
    /\ Len(tasks) = 2
    /\ BatchLen(tasks[1]) = batch_size
    /\ BatchLen(tasks[2]) = 1

\* The transitions of a batch
AllowedTransitions ==
    {<<"Pending", "Attempting">>, <<"Attempting", "Committed">>,
     <<"Attempting", "Backoff">>, <<"Backoff", "Attempting">>,
     <<"Attempting", "PermanentlyFailed">>, <<"Attempting", "RetriesExhausted">>,
     <<"Backoff", "RetriesExhausted">>}

\* C17: a batch starts in Pending and only takes the transitions of
\* AllowedTransitions; once Committed, PermanentlyFailed or RetriesExhausted
\* it stays as it is and no further attempt is made for it.
BatchTransitions ==
    [][/\ (pc = "for_results" /\ pc' = "join_all") =>
             \A b \in 1..Len(tasks') :
                 tasks'[b].st = "Pending" /\ tasks'[b].attempts = 0
       /\ (pc = "join_all" /\ pc' = "join_all") =>
             /\ Len(tasks') = Len(tasks)
             /\ \A b \in TaskIds :
                   /\ \/ tasks'[b].st = tasks[b].st
                      \/ <<tasks[b].st, tasks'[b].st>> \in AllowedTransitions
                   /\ tasks'[b].attempts =
                         tasks[b].attempts +
                           (IF tasks'[b].st = "Attempting" /\ tasks[b].st # "Attempting"
                            THEN 1 ELSE 0)
                   /\ tasks[b].st \in Terminal =>
                         /\ tasks'[b].st = tasks[b].st
                         /\ tasks'[b].attempts = tasks[b].attempts
                         /\ tasks'[b].report = tasks[b].report]_vars

\* One batch committed on its second attempt while its sibling, out of
\* retries after three attempts, is terminal
CommittedBesideExhausted ==
    \E b, c \in TaskIds :
        /\ tasks[b].st = "RetriesExhausted" /\ tasks[b].attempts = 3
        /\ tasks[c].st = "Committed" /\ tasks[c].attempts = 2

\* C18: a task takes one permit when it leaves Pending and holds it, through
\* attempts and sleeps, until it is terminal: the free permits are the
\* semaphore's size less the batches in flight, and when every batch is
\* terminal and after the call returns all permits are free again.
PermitsAccounted ==
    /\ pc = "join_all" =>
          /\ permits = env.limit - Cardinality(InFlight)
          /\ permits >= 0
          /\ (\A b \in TaskIds : tasks[b].st \in Terminal) => permits = env.limit
    /\ (pc \in {"for_results", "add_replies_to_relation"} /\ file_idx > 0) =>
          permits = env.limit

\* Of two permits one is free again: its batch failed, while the other batch
\* keeps its permit during a backoff sleep
PermitHeldAsleep ==
    /\ env.limit = 2
    /\ permits = 1
    /\ \E b, c \in TaskIds :
          tasks[b].st \in Failed /\ tasks[c].st = "Backoff"

\* C19: under fair scheduling every batch of a running call becomes terminal,
\* also a batch that has to wait for a permit, and the call returns.
EveryBatchEnds ==
    /\ \A b \in 1..MaxChunks :
          []((pc = "join_all" /\ b \in TaskIds) =>
                <>(b \in TaskIds /\ tasks[b].st \in Terminal))
    /\ [](pc = "join_all" => <>(pc = "for_results" /\ tasks = <<>>))

\* With one permit for two batches, the second batch became terminal after
\* the first one had used its whole retry budget
WaitedBehindExhausted ==
    /\ env.limit = 1
    /\ Len(tasks) = 2
    /\ \E b, c \in TaskIds :
          /\ tasks[b].st = "RetriesExhausted"
          /\ tasks[c].st = "Committed"
          /\ tasks[c].attempts = 1


\* The batches created by the calls for the files before the running one
CreatedEarlier == Sum(SubSeq([g \in 1..Len(results) |-> NumChunks(results[g])],
                             1, file_idx - 1))

\* C22 as stated: over the run, a batch has a larger index than every batch
\* created before it, in its own file's call and in the calls for the files
\* before: its index is at least the number of those batches, so no two
\* batches of the run print the same index.
BatchIndexGrowsOverRun ==
    pc = "join_all" =>
        \A b \in TaskIds :
            /\ \A c \in 1..(b - 1) : tasks[c].batch_idx < tasks[b].batch_idx
            /\ tasks[b].batch_idx >= CreatedEarlier + (b - 1)
            /\ tasks[b].report # NoReport =>
                  tasks[b].report.batch_idx = tasks[b].batch_idx

\* C22 amended: within one call of insert_new_tweets the batches are indexed
\* 0, 1, 2, ... in the order of their creation, so a later batch of the call
\* has a larger index and no two batches of the call print the same one;
\* every call starts again at 0, so batches of different files share indices.
BatchIndexPerCall ==
    pc = "join_all" =>
        /\ \A b \in TaskIds :
              /\ tasks[b].batch_idx = b - 1
              /\ tasks[b].report # NoReport =>
                    tasks[b].report.batch_idx = b - 1
        /\ \A b, c \in TaskIds :
              b < c => tasks[b].batch_idx < tasks[c].batch_idx

\* The first batch of the second file completed with index 0, after the call
\* for the first file had created two batches
IndexZeroAgain ==
    /\ pc = "join_all"
    /\ file_idx = 2
    /\ NumChunks(results[1]) = 2
    /\ Len(tasks) = 2
    /\ tasks[1].report = CompletedReport(0)
    /\ tasks[2].report.kind = FailedReport(1, <<>>).kind
    /\ tasks[2].report.batch_idx = 1

\* C23: a batch has left Pending only while the call for its file is running
\* and the calls for all earlier files have returned with every batch
\* terminal; a call spawns its tasks when no task of another call is left,
\* so the batches in flight are those of one file.
WritesOfFilesNeverOverlap ==
    /\ [](tasks # <<>> =>
             /\ pc = "join_all"
             /\ file_idx \in 1..Len(results)
             /\ Len(tasks) = NumChunks(results[file_idx])
             /\ Len(finished) = file_idx - 1
             /\ \A g \in 1..Len(finished) :
                   /\ \A s \in States \ Terminal : finished[g][s] = 0
                   /\ finished[g]["Committed"] + finished[g]["PermanentlyFailed"]
                         + finished[g]["RetriesExhausted"] = NumChunks(results[g]))
    /\ [][file_idx' # file_idx =>
             /\ file_idx' = file_idx + 1
             /\ tasks = <<>>
             /\ Len(finished) = file_idx
             /\ \A b \in 1..Len(tasks') : tasks'[b].st = "Pending"]_vars

\* Both batches of the second file are in flight after the two batches of
\* the first file have ended, one of them failed
SecondFileInFlight ==
    /\ pc = "join_all"
    /\ file_idx = 2
    /\ Len(finished) = 1
    /\ finished[1]["Committed"] = 1
    /\ finished[1]["PermanentlyFailed"] = 1
    /\ Len(tasks) = 2
    /\ tasks[1].st = "Backoff"
    /\ tasks[2].st = "Attempting"

-----------------------------------------------------------------------------
\* Properties of decoding

PastParse ==
    pc \in {"for_results", "join_all", "add_replies_to_relation",
            "add_user_mention_relation", "add_airline_labels", "done"}

\* C11: App's counters are written by parse_files only: no step of the write
\* phase (acquire, attempt, transient failure, backoff, commit, terminal
\* outcome, join) or after it changes them or the counters they were read
\* from, so from the return of parse_files on they keep its values.
CountersWrittenOnlyByDecoding ==
    /\ [][app' # app => (pc = "par_iter" /\ pc' = "for_results")]_vars
    /\ [][counters' # counters => pc \in {"parse_files", "par_iter"}]_vars
    /\ [](PastParse => app = Stored(counters))

\* The run is past its writes: the batch of one file ran out of retries, that
\* of the other committed, and the counters hold the 5 lines decoded
CountersKeptAcrossRetries ==
    /\ pc = "add_replies_to_relation"
    /\ Len(finished) = 2
    /\ finished[1]["RetriesExhausted"] = 1
    /\ finished[2]["Committed"] = 1
    /\ app = [tweet_count |-> 5, deletet_tweet_count |-> 1, retweet_count |-> 1]

\* The counts of a sequential scan: parse_file on one file after the other
RECURSIVE SequentialScan(_)
SequentialScan(fs) ==
    IF fs = <<>> THEN NoCounts
    ELSE LET r == parse_file(Head(fs))
             rest == SequentialScan(Tail(fs))
         IN  [deleted_tweets |-> r.deleted + rest.deleted_tweets,
              number_of_tweets |-> r.tweet_num + rest.number_of_tweets,
              number_of_retweets |-> r.retweet_num + rest.number_of_retweets]

\* The files whose task is in one of the states sts
WorkersIn(sts) == {f \in 1..Len(workers) : workers[f].st \in sts}

RECURSIVE SumOver(_, _)
SumOver(fs, field) ==
    IF fs = {} THEN 0
    ELSE LET f == CHOOSE g \in fs : TRUE
         IN  workers[f][field] + SumOver(fs \ {f}, field)

\* C12: in every interleaving of the decode tasks, each shared counter holds
\* exactly the counts of the tasks that have added to it, once each, and when
\* parse_files has returned App's three totals are those of a sequential scan
\* of the same files and the records of every file are returned.
TotalsEqualSequentialScan ==
    /\ pc = "par_iter" =>
          /\ counters.deleted_tweets =
                SumOver(WorkersIn({"deleted_added", "tweets_added", "done"}),
                        "deleted")
          /\ counters.number_of_tweets =
                SumOver(WorkersIn({"tweets_added", "done"}), "tweet_num")
          /\ counters.number_of_retweets =
                SumOver(WorkersIn({"done"}), "retweet_num")
    /\ PastParse =>
          /\ app = Stored(SequentialScan(input))
          /\ results = [f \in 1..Len(input) |-> Len(parse_file(input[f]).tweets)]

\* Two tasks are between their additions, the second file's task ahead of
\* the first file's
MergeInterleaved ==
    /\ pc = "par_iter"
    /\ Len(workers) = 2
    /\ input[1] # input[2]
    /\ workers[1].st = "deleted_added"
    /\ workers[2].st = "tweets_added"
    /\ counters.deleted_tweets = 1
    /\ counters.number_of_tweets \in {2, 3}

\* The position of App::run in the order of its phases
Rank(p) ==
    CASE p = "prepare_database" -> 0
      [] p = "parse_files" -> 1
      [] p = "par_iter" -> 2
      [] p \in {"for_results", "join_all"} -> 3
      [] p = "add_replies_to_relation" -> 4
      [] p = "add_user_mention_relation" -> 5
      [] p = "add_airline_labels" -> 6
      [] OTHER -> 7

DecodeTasksRunning ==
    \E f \in 1..Len(workers) : workers[f].st \notin {"done", "panicked"}

\* C16: the phases follow each other and none is entered twice; no decode
\* task exists before prepare_database has returned; writer tasks exist in
\* the write phase only, when no decode task is running and every file has
\* been decoded; derivation starts when every file's call has returned.
PhasesNeverOverlap ==
    /\ [][pc' # pc =>
             \/ Rank(pc') > Rank(pc)
             \/ (Rank(pc') = 3 /\ Rank(pc) = 3)]_vars
    /\ [](Rank(pc) <= 1 => (workers = <<>> /\ tasks = <<>> /\ file_idx = 0))
    /\ [](Rank(pc) = 2 => (tasks = <<>> /\ file_idx = 0))
    /\ []((tasks # <<>> \/ file_idx > 0) =>
             /\ ~DecodeTasksRunning
             /\ Len(workers) = Len(input)
             /\ \A f \in 1..Len(workers) : workers[f].st = "done")
    /\ [](tasks # <<>> => pc = "join_all")
    /\ [](Rank(pc) \in 4..6 =>
             /\ ~DecodeTasksRunning
             /\ tasks = <<>>
             /\ file_idx = Len(input)
             /\ Len(finished) = Len(input))

\* The second file's batch sleeps between two attempts; both files were
\* decoded before and the first file's call has returned
WritingAfterDecoding ==
    /\ pc = "join_all"
    /\ file_idx = 2
    /\ Len(finished) = 1
    /\ \E b \in TaskIds : tasks[b].st = "Backoff"
    /\ \A f \in 1..Len(workers) : workers[f].st = "done"

\* The three classes of C13
Class(line) ==
    IF line.delete THEN "deleted_marker"
    ELSE IF line.tweet THEN "successfully_decoded"
    ELSE "discarded_malformed"

CountOf(file, class) ==
    Cardinality({i \in 1..Len(file.lines) : Class(file.lines[i]) = class})

ScenarioA == Readable(<<Post, Post, Post, Deletion, Malformed>>)

\* C13: when parse_file returns, the total is the number of lines, the
\* records returned, the deleted counter and the lines serde_json rejected
\* are the lines of the three classes, and the total is their sum; 3 valid
\* posts, 1 deletion marker and 1 malformed line give 5, 1, 1 and 3.
DecodeAccounting ==
    /\ \A f \in 1..Len(workers) :
          workers[f].st = "returned" =>
              LET w == workers[f]
                  malformed == w.decoded - Len(w.tweets)
              IN  /\ w.tweet_num = Len(input[f].lines)
                  /\ Len(w.tweets) = CountOf(input[f], "successfully_decoded")
                  /\ w.deleted = CountOf(input[f], "deleted_marker")
                  /\ malformed = CountOf(input[f], "discarded_malformed")
                  /\ w.tweet_num = Len(w.tweets) + malformed + w.deleted
    /\ LET r == parse_file(ScenarioA)
       IN  /\ r.tweet_num = 5
           /\ r.deleted = 1
           /\ r.decoded - Len(r.tweets) = 1
           /\ Len(r.tweets) = 3

\* parse_file returned from a file of four lines with all three classes
AllClassesDecoded ==
    /\ workers[1].st = "returned"
    /\ workers[1].tweet_num = 4
    /\ Len(workers[1].tweets) = 2
    /\ workers[1].deleted = 1
    /\ workers[1].decoded = 3

RECURSIVE OtherFiles(_)
OtherFiles(fs) ==
    IF fs = <<>> THEN <<>>
    ELSE IF Head(fs).readable THEN <<Head(fs)>> \o OtherFiles(Tail(fs))
    ELSE OtherFiles(Tail(fs))

\* C14 as stated: when a file could not be opened, parse_files still returns,
\* with the records of every other file and with their counts merged.
UnreadableFileConfined ==
    (/\ pc # "par_iter"
     /\ \E f \in 1..Len(workers) : workers[f].st = "panicked") =>
        /\ PastParse
        /\ Len(results) = Len(input)
        /\ \A f \in 1..Len(input) :
              input[f].readable =>
                  results[f] = Len(parse_file(input[f]).tweets)
        /\ app = Stored(SequentialScan(OtherFiles(input)))

\* The records of w whose re-share flag is set
Flagged(w) == {i \in 1..Len(w.tweets) : w.tweets[i].is_retweet}

\* The lines of a file that decode and hold the re-share marker, as positions
\* among the records returned
RECURSIVE MarkedRecords(_, _)
MarkedRecords(lines, n) ==
    IF lines = <<>> THEN {}
    ELSE LET line == Head(lines)
         IN  IF line.delete \/ ~line.tweet THEN MarkedRecords(Tail(lines), n)
             ELSE (IF line.retweeted_status THEN {n + 1} ELSE {})
                     \cup MarkedRecords(Tail(lines), n + 1)

\* C21 as stated: when parse_file returns, the re-share counter is the number
\* of records returned with is_retweet set, and the records with the flag set
\* are those of the lines that decoded and contain the re-share marker.
RetweetCounterCountsFlags ==
    \A f \in 1..Len(workers) :
        workers[f].st = "returned" =>
            /\ workers[f].retweet_num = Cardinality(Flagged(workers[f]))
            /\ Flagged(workers[f]) = MarkedRecords(input[f].lines, 0)

\* The line the reader of file f is about to read
NextLine(f) == input[f].lines[workers[f].pos + 1]

\* C20: reading a line that contains the deletion marker adds one to the
\* total and one to the deleted counter, returns no record for it, leaves the
\* re-share counter alone and does not call the decoder, whatever else the
\* line holds.
DeletionLinesOnlyCounted ==
    [][\A f \in 1..Len(workers) :
          (/\ f \in 1..Len(workers')
           /\ workers[f].st = "reading"
           /\ workers'[f] # workers[f]
           /\ NextLine(f).delete) =>
              /\ workers'[f].tweet_num = workers[f].tweet_num + 1
              /\ workers'[f].deleted = workers[f].deleted + 1
              /\ workers'[f].tweets = workers[f].tweets
              /\ workers'[f].retweet_num = workers[f].retweet_num
              /\ workers'[f].decoded = workers[f].decoded]_vars

\* The reader is past a deletion line that is also a valid post with the
\* re-share marker, and past a plain post
ValidRetweetDeleted ==
    /\ workers[1].pos = 2
    /\ input[1].lines[1] = Post
    /\ input[1].lines[2] = Line(TRUE, TRUE, TRUE)
    /\ workers[1].deleted = 1
    /\ Len(workers[1].tweets) = 1

-----------------------------------------------------------------------------
\* Specification of the store

\* One transaction of a writer task commits; a batch may commit again when
\* its first commit was reported to the task as a failure
Commit ==
    /\ \E n \in 1..Min(MaxRows - 1, MaxRows - TotalRows(applied)) :
          \E batch \in ParamBatches(n) :
              /\ graph' = run_insert_with_txn(graph, batch)
              /\ applied' = Append(applied, batch)
    /\ UNCHANGED <<pipelineVars, decodeVars>>

InitGraph ==
    /\ pc = "join_all"
    /\ env \in [limit : {max_concurrent_batches}, durations : {{20000}},
                randoms : {{1}}, errors : {{ErrDeadlockDetected}}]
    /\ files = <<>>
    /\ results = <<>>
    /\ file_idx = 0
    /\ permits = max_concurrent_batches
    /\ tasks = <<>>
    /\ finished = <<>>
    /\ graph = EmptyGraph
    /\ applied = <<>>
    /\ input = <<>>
    /\ workers = <<>>
    /\ counters = NoCounts
    /\ app = Stored(NoCounts)

NextGraph == Commit

SpecGraph == InitGraph /\ [][NextGraph]_vars

-----------------------------------------------------------------------------
\* Properties of the store

NodeIds(nodes) == {n.id : n \in nodes}

\* C9 as stated: committing the same batch a second time leaves the graph as
\* it was after the first commit: the same nodes, properties and edges.
ReapplyLeavesGraphUnchanged ==
    (Len(applied) = 2 /\ applied[1] = applied[2]) =>
        graph = run_insert_with_txn(EmptyGraph, applied[1])

\* C10 as stated: two batches committed in either order give the same graph.
CommitOrderIrrelevant ==
    Len(applied) = 2 =>
        graph = run_insert_with_txn(
                    run_insert_with_txn(EmptyGraph, applied[2]), applied[1])

\* The rows agree on the properties of every tweet and user they share
RowsAgree(rows) ==
    \A i, j \in 1..Len(rows) :
        /\ rows[i].id = rows[j].id => rows[i].text = rows[j].text
        /\ rows[i].userId = rows[j].userId => rows[i].userName = rows[j].userName

\* C10 amended: two batches committed in either order give the same tweet
\* nodes, user nodes and edges by identifier, with one node per identifier;
\* the node properties are the same too when the rows of the two batches
\* agree on every identifier they share.
CommitOrderKeepsNodesAndEdges ==
    Len(applied) = 2 =>
        LET other == run_insert_with_txn(
                         run_insert_with_txn(EmptyGraph, applied[2]), applied[1])
        IN  /\ NodeIds(graph.tweets) = NodeIds(other.tweets)
            /\ NodeIds(graph.users) = NodeIds(other.users)
            /\ Cardinality(graph.tweets) = Cardinality(NodeIds(graph.tweets))
            /\ Cardinality(graph.users) = Cardinality(NodeIds(graph.users))
            /\ graph.edges = other.edges
            /\ RowsAgree(applied[1] \o applied[2]) => graph = other

\* Two batches that carry different snapshots of one user and one tweet were
\* committed, the second one holding two rows
ConflictingBatchesCommitted ==
    /\ Len(applied) = 2
    /\ Len(applied[2]) = 2
    /\ \E i \in 1..Len(applied[1]), j \in 1..Len(applied[2]) :
          /\ applied[1][i].id = applied[2][j].id
          /\ applied[1][i].text # applied[2][j].text
          /\ applied[1][i].userId = applied[2][j].userId
          /\ applied[1][i].userName # applied[2][j].userName

====
